---- MODULE Spec2Model ----
(***************************************************************************)
(* Model of socket_proxy: the bidirectional relay (src/src/stream.rs), the *)
(* destination negotiation and connection handling (src/src/client.rs,     *)
(* src/src/main.rs), the SOCKS5 wire codec and upstream handshake          *)
(* (src/src/protocols/socks5.rs), the TLS ClientHello parser               *)
(* (src/src/tls/mod.rs) and the accept loop (src/src/main.rs)              *)
(***************************************************************************)
EXTENDS Integers, Sequences, FiniteSets, TLC

VARIABLES
    bipipe,     \* BiPipe {left, right, half_close_deadline}   (stream.rs 135-139)
    shared,     \* the tracked window of the thread-local SHARED_BUFFER
    sock,       \* per socket: bytes still to arrive, receive queue, FIN seen
    readLog,    \* per direction: every byte a read returned, in order
    wrote,      \* per direction: every byte a write accepted, in order
    rpc,        \* position of the task inside BiPipe::poll
    lastPoll,   \* what the last return of BiPipe::poll looked like, and the
                \* socket operation that failed, if one did
    now,        \* the clock, in seconds
    hpc,        \* position of the task inside handle_client     (main.rs 71-81)
    env,        \* the accepted socket: original destinations, local address
    script,     \* what the client of the connection set out to send
    cin,        \* bytes of the client not read yet
    cio,        \* reads and writes of from_socket on the client socket, in order
    client,     \* Option<Client>: <<>> or <<[dest, pending_data]>>
    peek,       \* what the read of retrieve_dest returned
    uio,        \* reads and writes on the upstream socket, in order
    resolved,   \* what from_socket returned: <<>> or <<Destination>>
    herr,       \* the error handle_client returned: <<>> or <<[at, err]>>
    kpc,        \* codec round trip: position
    kdest,      \* codec round trip: the Destination encoded
    wire,       \* codec round trip: the bytes build_request produced
    decoded,    \* codec round trip: what the CONNECT decoder made of them
    tpc,        \* TLS parser: position
    tcase,      \* TLS parser: how the input bytes were made
    tdata,      \* TLS parser: the input bytes
    tresult,    \* TLS parser: what parse_client_hello returned
    lpc,        \* accept loop: position of the main task          (main.rs 63-68)
    backlog,    \* accept loop: connections waiting in the listener's queue
    hstage,     \* accept loop: per connection, how far its handling got
    logged,     \* accept loop: the connections whose error was logged, in order
    hspc,       \* upstream handshake: position
    hsarg,      \* upstream handshake: dest, data and what the upstream answers
    hsret       \* upstream handshake: what do_handshake returned and its I/O

relayVars == <<bipipe, shared, sock, readLog, wrote, rpc, lastPoll, now>>
connVars == <<hpc, env, script, cin, cio, client, peek, uio, resolved, herr>>
codecVars == <<kpc, kdest, wire, decoded>>
tlsVars == <<tpc, tcase, tdata, tresult>>
serverVars == <<lpc, backlog, hstage, logged>>
shakeVars == <<hspc, hsarg, hsret>>

vars == <<relayVars, connVars, codecVars, tlsVars, serverVars, shakeVars>>

\* what the actions of one component leave alone
notRelay == <<connVars, codecVars, tlsVars, serverVars, shakeVars>>
notConn == <<relayVars, codecVars, tlsVars, serverVars, shakeVars>>
notCodec == <<relayVars, connVars, tlsVars, serverVars, shakeVars>>
notTls == <<relayVars, connVars, codecVars, serverVars, shakeVars>>
notServer == <<relayVars, connVars, codecVars, tlsVars, shakeVars>>
notShake == <<relayVars, connVars, codecVars, tlsVars, serverVars>>

-----------------------------------------------------------------------------
(* Bounds of the model *)

\* bytes each peer sends before it closes
MaxBytes == 2
\* the clock stops here
MaxTime == 120
\* seconds that pass in one step of the clock
TickSeconds == 30

(* Program constants *)
SHARED_BUF_SIZE == 65536
PRIVATE_BUF_SIZE == 8192
HALF_CLOSE_TIMEOUT == 60

Min(a, b) == IF a < b THEN a ELSE b
Max(a, b) == IF a > b THEN a ELSE b

Sides == {"left", "right"}
Other(side) == IF side = "left" THEN "right" ELSE "left"

\* the bytes the peer of each socket sends: distinct, so that loss,
\* duplication and reordering all show
PeerStream(side) ==
    [i \in 1..MaxBytes |-> (IF side = "left" THEN 10 ELSE 20) + i]

\* buffers are tracked on their first BufWindow cells: no read of the model
\* returns more bytes than a peer sends
BufWindow == MaxBytes
ZeroWindow == [i \in 1..BufWindow |-> 0]

-----------------------------------------------------------------------------
(* StreamWithBuffer *)

\* StreamWithBuffer::new
NewStreamWithBuffer ==
    [buf |-> <<>>, pos |-> 0, cap |-> 0, read_eof |-> FALSE, done |-> FALSE]

is_empty(self) == self.pos = self.cap

\* ReadBuf::new(buf) fills the buffer from its first cell
ReadInto(data, bytes) ==
    [i \in 1..BufWindow |-> IF i <= Len(bytes) THEN bytes[i] ELSE data[i]]

\* the length of the buffer a direction reads into
BufLen(self) == IF self.buf = <<>> THEN SHARED_BUF_SIZE ELSE self.buf[1].len

BufData(self, sh) == IF self.buf = <<>> THEN sh ELSE self.buf[1].data

\* a plausible slip: the cursors designate the bytes just read
poll_read_to_buffer_cap_n(self, sh, io) ==
    IF io.kind # "Ok"
    THEN [self |-> self, shared |-> sh, ret |-> io.kind]
    ELSE LET n == Len(io.bytes)
             filled == IF self.buf = <<>> THEN self
                       ELSE [self EXCEPT !.buf =
                               <<[len |-> self.buf[1].len,
                                  data |-> ReadInto(self.buf[1].data, io.bytes)]>>]
         IN [self |-> IF n = 0 THEN [filled EXCEPT !.read_eof = TRUE]
                      ELSE [filled EXCEPT !.pos = 0, !.cap = n],
             shared |-> IF self.buf = <<>> THEN ReadInto(sh, io.bytes) ELSE sh,
             ret |-> "Ok"]

\* a plausible slip: the two cursors are assigned the wrong way round
poll_read_to_buffer_pos_n(self, sh, io) ==
    IF io.kind # "Ok"
    THEN [self |-> self, shared |-> sh, ret |-> io.kind]
    ELSE LET n == Len(io.bytes)
             filled == IF self.buf = <<>> THEN self
                       ELSE [self EXCEPT !.buf =
                               <<[len |-> self.buf[1].len,
                                  data |-> ReadInto(self.buf[1].data, io.bytes)]>>]
         IN [self |-> IF n = 0 THEN [filled EXCEPT !.read_eof = TRUE]
                      ELSE [filled EXCEPT !.pos = n, !.cap = 0],
             shared |-> IF self.buf = <<>> THEN ReadInto(sh, io.bytes) ELSE sh,
             ret |-> "Ok"]

\* StreamWithBuffer::poll_read_to_buffer. io is what poll_read answers:
\* Pending, Err, or Ok with the bytes it filled in.
poll_read_to_buffer(self, sh, io) ==
    IF io.kind # "Ok"
    THEN [self |-> self, shared |-> sh, ret |-> io.kind]
    ELSE LET n == Len(io.bytes)
             filled == IF self.buf = <<>> THEN self
                       ELSE [self EXCEPT !.buf =
                               <<[len |-> self.buf[1].len,
                                  data |-> ReadInto(self.buf[1].data, io.bytes)]>>]
         IN [self |-> IF n = 0 THEN [filled EXCEPT !.read_eof = TRUE]
                      ELSE [filled EXCEPT !.pos = 0, !.cap = 0],
             shared |-> IF self.buf = <<>> THEN ReadInto(sh, io.bytes) ELSE sh,
             ret |-> "Ok"]

\* &buf[self.pos..self.cap]: the slice a write offers; indexing out of the
\* buffer's range panics
SliceInRange(self) == self.pos <= self.cap /\ self.cap <= BufLen(self)

Slice(self, sh) ==
    [i \in 1..(self.cap - self.pos) |-> BufData(self, sh)[self.pos + i]]

\* the kind of the error a socket operation's answer carries
IoErr(io) == IF io.kind = "Err" THEN "Io" ELSE "None"

\* a plausible slip: a write that takes no byte is a write like any other
poll_write_buffer_to_zero_ok(self, sh, io) ==
    CASE io.kind = "Ok" ->
            [self |-> [self EXCEPT !.pos = self.pos + io.n], ret |-> "Ok",
             err |-> "None"]
      [] io.kind = "Pending" /\ self.buf = <<>> ->
            LET available == self.cap - self.pos
                remainder == Slice(self, sh)
            IN [self |-> [self EXCEPT !.buf =
                            <<[len |-> Max(PRIVATE_BUF_SIZE, available),
                               data |-> ReadInto(ZeroWindow, remainder)]>>],
                ret |-> "Pending", err |-> "None"]
      [] OTHER -> [self |-> self, ret |-> io.kind, err |-> IoErr(io)]

\* StreamWithBuffer::poll_write_buffer_to. io is what poll_write answers:
\* Pending, Err, or Ok with the number of bytes it took. err is the kind of
\* the error returned, if any.
poll_write_buffer_to(self, sh, io) ==
    CASE io.kind = "Ok" /\ io.n = 0 ->
            [self |-> self, ret |-> "Err", err |-> "WriteZero"]
      [] io.kind = "Ok" /\ io.n > 0 ->
            [self |-> [self EXCEPT !.pos = self.pos + io.n], ret |-> "Ok",
             err |-> "None"]
      [] io.kind = "Pending" /\ self.buf = <<>> ->
            LET available == self.cap - self.pos
                remainder == Slice(self, sh)
            IN [self |-> [self EXCEPT !.buf =
                            <<[len |-> Max(PRIVATE_BUF_SIZE, available),
                               data |-> ReadInto(ZeroWindow, remainder)]>>],
                ret |-> "Pending", err |-> "None"]
      [] OTHER -> [self |-> self, ret |-> io.kind, err |-> IoErr(io)]

-----------------------------------------------------------------------------
(* BiPipe *)

\* pipe(left, right)
pipe == [left |-> NewStreamWithBuffer, right |-> NewStreamWithBuffer,
         half_close_deadline |-> <<>>]

\* what poll_read on a socket can answer
ReadOutcomes(side, len) ==
    {[kind |-> "Err", bytes |-> <<>>]} \cup
    (IF sock[side].rx # <<>>
     THEN {[kind |-> "Ok", bytes |-> SubSeq(sock[side].rx, 1, n)] :
              n \in 1..Min(Len(sock[side].rx), len)}
     ELSE IF sock[side].fin
     THEN {[kind |-> "Ok", bytes |-> <<>>]}
     ELSE {[kind |-> "Pending", bytes |-> <<>>]})

\* what poll_write of m bytes can answer
WriteOutcomes(m) ==
    {[kind |-> "Err", n |-> 0], [kind |-> "Pending", n |-> 0]} \cup
    {[kind |-> "Ok", n |-> k] : k \in 0..m}

\* what poll_shutdown can answer
ShutdownOutcomes == {"Pending", "Ok", "Err"}

Idle == [at |-> "idle", side |-> "left", stage |-> "top"]
AtSide(side) == [at |-> "one_side", side |-> side, stage |-> "top"]
AtMatch == [at |-> "match", side |-> "left", stage |-> "top"]
Returned == [at |-> "returned", side |-> "left", stage |-> "top"]

\* BiPipe::poll, lines 189-199: where the task goes when poll_one_side(side)
\* returns ret with the pipe in state bp
AfterSide(side, ret, bp) ==
    IF ret = "Err" THEN Returned
    ELSE IF side = "left" /\ ~bp.right.done THEN AtSide("right")
    ELSE AtMatch

\* the executor polls the future
PollEnter ==
    /\ rpc.at = "idle"
    /\ rpc' = IF ~bipipe.left.done THEN AtSide("left")
              ELSE IF ~bipipe.right.done THEN AtSide("right")
              ELSE AtMatch
    /\ UNCHANGED <<bipipe, shared, sock, readLog, wrote, lastPoll, now>>
    /\ UNCHANGED notRelay

\* a plausible slip: end-of-input is not looked at before a read
should_read_whenever_empty(reader) == is_empty(reader)

\* poll_one_side, line 161: the condition under which a read is issued
should_read(reader) == is_empty(reader) /\ ~reader.read_eof

\* poll_one_side, lines 161-163
ReadStep(side) ==
    /\ rpc.at = "one_side" /\ rpc.side = side /\ rpc.stage = "top"
    /\ LET reader == bipipe[side] IN
       IF should_read(reader)
       THEN \E io \in ReadOutcomes(side, BufLen(reader)) :
              LET r == poll_read_to_buffer(reader, shared, io)
                  bp == [bipipe EXCEPT ![side] = r.self]
              IN /\ bipipe' = bp
                 /\ shared' = r.shared
                 /\ sock' = [sock EXCEPT ![side].rx =
                               SubSeq(@, Len(io.bytes) + 1, Len(@))]
                 /\ readLog' = [readLog EXCEPT ![side] = @ \o io.bytes]
                 /\ rpc' = IF r.ret = "Ok" THEN [rpc EXCEPT !.stage = "write"]
                           ELSE AfterSide(side, r.ret, bp)
                 /\ lastPoll' =
                      LET failed == [lastPoll EXCEPT !.failed =
                                       IF io.kind = "Err"
                                       THEN <<[op |-> "read", side |-> side,
                                               io |-> "Err"]>>
                                       ELSE @]
                      IN IF r.ret = "Err"
                         THEN [failed EXCEPT !.result = "ReadyErr", !.at = now,
                                             !.err = IoErr(io)]
                         ELSE failed
       ELSE /\ rpc' = [rpc EXCEPT !.stage = "write"]
            /\ UNCHANGED <<bipipe, shared, sock, readLog, lastPoll>>
    /\ UNCHANGED <<wrote, now>>
    /\ UNCHANGED notRelay

\* poll_one_side, lines 165-167
WriteStep(side) ==
    /\ rpc.at = "one_side" /\ rpc.side = side /\ rpc.stage = "write"
    /\ LET reader == bipipe[side] IN
       IF ~is_empty(reader)
       THEN IF ~SliceInRange(reader)
            THEN /\ rpc' = Returned
                 /\ lastPoll' = [lastPoll EXCEPT !.result = "Panic", !.at = now]
                 /\ UNCHANGED <<bipipe, wrote>>
            ELSE \E io \in WriteOutcomes(reader.cap - reader.pos) :
                   LET r == poll_write_buffer_to(reader, shared, io)
                       bp == [bipipe EXCEPT ![side] = r.self]
                   IN /\ bipipe' = bp
                      /\ wrote' = [wrote EXCEPT ![side] =
                                     @ \o SubSeq(Slice(reader, shared), 1, io.n)]
                      /\ rpc' = IF r.ret = "Ok" THEN rpc
                                ELSE AfterSide(side, r.ret, bp)
                      /\ lastPoll' =
                           LET failed == [lastPoll EXCEPT !.failed =
                                            IF io.kind = "Err"
                                            THEN <<[op |-> "write", side |-> side,
                                                    io |-> "Err"]>>
                                            ELSE IF io.kind = "Ok" /\ io.n = 0
                                            THEN <<[op |-> "write", side |-> side,
                                                    io |-> "Ok0"]>>
                                            ELSE @]
                           IN IF r.ret = "Err"
                              THEN [failed EXCEPT !.result = "ReadyErr",
                                                  !.at = now, !.err = r.err]
                              ELSE failed
       ELSE /\ rpc' = [rpc EXCEPT !.stage = "shutdown"]
            /\ UNCHANGED <<bipipe, wrote, lastPoll>>
    /\ UNCHANGED <<shared, sock, readLog, now>>
    /\ UNCHANGED notRelay

\* a plausible slip: the shutdown goes through try_poll! like the I/O above it
finish_on_shutdown_try_poll(reader, out) ==
    IF out = "Ok" THEN [self |-> [reader EXCEPT !.done = TRUE], ret |-> "Ok"]
    ELSE [self |-> reader, ret |-> out]

\* poll_one_side, lines 169-179: what the answer of poll_shutdown makes of
\* the direction, and what poll_one_side returns
finish_on_shutdown(reader, out) ==
    IF out = "Pending" THEN [self |-> reader, ret |-> "Pending"]
    ELSE [self |-> [reader EXCEPT !.done = TRUE], ret |-> "Ok"]

\* poll_one_side, lines 168-180
ShutdownStep(side) ==
    /\ rpc.at = "one_side" /\ rpc.side = side /\ rpc.stage = "shutdown"
    /\ LET reader == bipipe[side] IN
       IF reader.read_eof
       THEN \E out \in ShutdownOutcomes :
              LET r == finish_on_shutdown(reader, out)
                  bp == [bipipe EXCEPT ![side] = r.self]
              IN /\ bipipe' = bp
                 /\ sock' = IF out = "Pending" THEN sock
                            ELSE [sock EXCEPT ![Other(side)].shut = out]
                 /\ rpc' = AfterSide(side, r.ret, bp)
                 /\ lastPoll' = IF r.ret = "Err"
                                THEN [lastPoll EXCEPT !.result = "ReadyErr", !.at = now]
                                ELSE lastPoll
       ELSE /\ rpc' = [rpc EXCEPT !.stage = "top"]
            /\ UNCHANGED <<bipipe, sock, lastPoll>>
    /\ UNCHANGED <<shared, readLog, wrote, now>>
    /\ UNCHANGED notRelay

\* a plausible slip: the half-close arm completes without looking at the timer
poll_termination_no_grace(bp, t) ==
    CASE bp.left.done /\ bp.right.done -> [bipipe |-> bp, result |-> "ReadyOk"]
      [] ~bp.left.done /\ ~bp.right.done -> [bipipe |-> bp, result |-> "Pending"]
      [] OTHER -> [bipipe |-> bp, result |-> "ReadyOk"]

\* BiPipe::poll, lines 201-223, at time t
poll_termination(bp, t) ==
    CASE bp.left.done /\ bp.right.done -> [bipipe |-> bp, result |-> "ReadyOk"]
      [] ~bp.left.done /\ ~bp.right.done -> [bipipe |-> bp, result |-> "Pending"]
      [] OTHER ->
            IF bp.half_close_deadline = <<>>
            THEN [bipipe |-> [bp EXCEPT !.half_close_deadline =
                                          <<t + HALF_CLOSE_TIMEOUT>>],
                  result |-> "Pending"]
            ELSE IF ~(t >= bp.half_close_deadline[1])
            THEN [bipipe |-> [bp EXCEPT !.half_close_deadline =
                                          <<t + HALF_CLOSE_TIMEOUT>>],
                  result |-> "Pending"]
            ELSE [bipipe |-> bp, result |-> "ReadyOk"]

Asymmetric(bp) == bp.left.done # bp.right.done

Match ==
    /\ rpc.at = "match"
    /\ LET r == poll_termination(bipipe, now) IN
       /\ bipipe' = r.bipipe
       /\ rpc' = IF r.result = "Pending" THEN Idle ELSE Returned
       /\ lastPoll' = [result |-> r.result, at |-> now,
                       err |-> lastPoll.err, failed |-> lastPoll.failed,
                       elapsed |-> /\ bipipe.half_close_deadline # <<>>
                                   /\ now >= bipipe.half_close_deadline[1],
                       firstAsym |-> IF Asymmetric(bipipe) /\ lastPoll.firstAsym = <<>>
                                     THEN <<now>> ELSE lastPoll.firstAsym]
    /\ UNCHANGED <<shared, sock, readLog, wrote, now>>
    /\ UNCHANGED notRelay

(* the environment of the relay *)

\* the next byte of a peer reaches the socket's receive queue
PeerSend(side) ==
    /\ sock[side].tosend # <<>>
    /\ sock' = [sock EXCEPT ![side].rx = Append(@, Head(sock[side].tosend)),
                            ![side].tosend = Tail(@)]
    /\ UNCHANGED <<bipipe, shared, readLog, wrote, rpc, lastPoll, now>>
    /\ UNCHANGED notRelay

\* the peer closes its sending half
PeerClose(side) ==
    /\ ~sock[side].fin
    /\ sock' = [sock EXCEPT ![side].fin = TRUE, ![side].tosend = <<>>]
    /\ UNCHANGED <<bipipe, shared, readLog, wrote, rpc, lastPoll, now>>
    /\ UNCHANGED notRelay

\* time passes while the task is suspended
Tick ==
    /\ rpc.at = "idle"
    /\ now + TickSeconds <= MaxTime
    /\ now' = now + TickSeconds
    /\ UNCHANGED <<bipipe, shared, sock, readLog, wrote, rpc, lastPoll>>
    /\ UNCHANGED notRelay

NewSocket(side) ==
    [tosend |-> PeerStream(side), rx |-> <<>>, fin |-> FALSE, shut |-> "No"]

RelayInit ==
    /\ bipipe = pipe
    /\ shared = ZeroWindow
    /\ sock = [s \in Sides |-> NewSocket(s)]
    /\ readLog = [s \in Sides |-> <<>>]
    /\ wrote = [s \in Sides |-> <<>>]
    /\ rpc = Idle
    /\ lastPoll = [result |-> "None", at |-> 0, elapsed |-> FALSE,
                   firstAsym |-> <<>>, err |-> "None", failed |-> <<>>]
    /\ now = 0

\* the relay taken up where the left direction holds n bytes of its source,
\* read into the shared buffer and not yet written
HandOffInit ==
    /\ \E n \in 1..MaxBytes :
         /\ bipipe = [pipe EXCEPT !.left.cap = n]
         /\ shared = ReadInto(ZeroWindow, SubSeq(PeerStream("left"), 1, n))
         /\ sock = [s \in Sides |->
                      IF s = "left"
                      THEN [NewSocket(s) EXCEPT !.tosend =
                              SubSeq(PeerStream(s), n + 1, MaxBytes)]
                      ELSE NewSocket(s)]
         /\ readLog = [s \in Sides |->
                         IF s = "left" THEN SubSeq(PeerStream(s), 1, n) ELSE <<>>]
    /\ wrote = [s \in Sides |-> <<>>]
    /\ rpc = [at |-> "one_side", side |-> "left", stage |-> "write"]
    /\ lastPoll = [result |-> "None", at |-> 0, elapsed |-> FALSE,
                   firstAsym |-> <<>>, err |-> "None", failed |-> <<>>]
    /\ now = 0

RelayNext ==
    \/ PollEnter
    \/ \E side \in Sides : ReadStep(side)
    \/ \E side \in Sides : WriteStep(side)
    \/ \E side \in Sides : ShutdownStep(side)
    \/ Match
    \/ \E side \in Sides : PeerSend(side)
    \/ \E side \in Sides : PeerClose(side)
    \/ Tick

-----------------------------------------------------------------------------
(* Address, Destination (client.rs 20-75) *)

\* IpAddr::V4 / IpAddr::V6, by their octets
IpV4(o) == [v |-> 4, octets |-> o]
IpV6(o) == [v |-> 6, octets |-> o]

\* SocketAddr (flow information and scope id of a V6 address are left out)
SocketAddr(ip, port) == [ip |-> ip, port |-> port]

\* Address::Ip, Address::Domain
AddressIp(ip) == [kind |-> "Ip", ip |-> ip]
AddressDomain(name) == [kind |-> "Domain", name |-> name]

\* impl From<(Address, u16)> for Destination
Destination(host, port) == [host |-> host, port |-> port]

\* impl From<SocketAddr> for Destination
DestinationFromSocketAddr(addr) == Destination(AddressIp(addr.ip), addr.port)

Drop(seq, k) == SubSeq(seq, k + 1, Len(seq))
Take(seq, k) == SubSeq(seq, 1, Min(k, Len(seq)))

\* the length of the well-formed UTF-8 sequence that starts at b[i], or 0
Utf8SeqLen(b, i) ==
    LET x == b[i]
        In(j, lo, hi) == j <= Len(b) /\ b[j] >= lo /\ b[j] <= hi
        Cont(j) == In(j, 128, 191)
    IN CASE x < 128 -> 1
         [] x >= 194 /\ x <= 223 -> IF Cont(i + 1) THEN 2 ELSE 0
         [] x = 224 -> IF In(i + 1, 160, 191) /\ Cont(i + 2) THEN 3 ELSE 0
         [] (x >= 225 /\ x <= 236) \/ x = 238 \/ x = 239 ->
               IF Cont(i + 1) /\ Cont(i + 2) THEN 3 ELSE 0
         [] x = 237 -> IF In(i + 1, 128, 159) /\ Cont(i + 2) THEN 3 ELSE 0
         [] x = 240 ->
               IF In(i + 1, 144, 191) /\ Cont(i + 2) /\ Cont(i + 3) THEN 4 ELSE 0
         [] x >= 241 /\ x <= 243 ->
               IF Cont(i + 1) /\ Cont(i + 2) /\ Cont(i + 3) THEN 4 ELSE 0
         [] x = 244 ->
               IF In(i + 1, 128, 143) /\ Cont(i + 2) /\ Cont(i + 3) THEN 4 ELSE 0
         [] OTHER -> 0

\* String::from_utf8 succeeds: every byte that is no continuation byte starts
\* a well-formed sequence, and every continuation byte lies inside one
IsUtf8(b) ==
    \A i \in 1..Len(b) :
        IF b[i] >= 128 /\ b[i] <= 191
        THEN \E j \in 1..(i - 1) : i - j <= 3 /\ Utf8SeqLen(b, j) > i - j
        ELSE Utf8SeqLen(b, i) > 0

-----------------------------------------------------------------------------
(* SOCKS5 wire codec *)

\* the fixed frames
MethodOffer == <<5, 1, 0>>
MethodSelected == <<5, 0>>
SuccessFrame == <<5, 0, 0, 1, 0, 0, 0, 0, 0, 0>>

\* socks5.rs build_request
build_request(dest) ==
    <<5, 1, 0>>
    \o (IF dest.host.kind = "Ip"
        THEN IF dest.host.ip.v = 4
             THEN dest.host.ip.octets
             ELSE <<4>> \o dest.host.ip.octets
        ELSE <<3, Len(dest.host.name) % 256>> \o dest.host.name)
    \o <<(dest.port \div 256) % 256, dest.port % 256>>

ReadFailed(err, used) == [ret |-> "Err", err |-> err, dest |-> <<>>, used |-> used]

\* a plausible slip: the port is read low byte first
read_port_little_endian(addr, rest, used) ==
    IF Len(rest) < 2 THEN ReadFailed("UnexpectedEof", used + Len(rest))
    ELSE [ret |-> "Ok", err |-> "",
          dest |-> <<Destination(addr, rest[2] * 256 + rest[1])>>,
          used |-> used + 2]

\* client.rs 165-167: the port, then the Destination
read_port(addr, rest, used) ==
    IF Len(rest) < 2 THEN ReadFailed("UnexpectedEof", used + Len(rest))
    ELSE [ret |-> "Ok", err |-> "",
          dest |-> <<Destination(addr, rest[1] * 256 + rest[2])>>,
          used |-> used + 2]

\* a plausible slip: the command byte is not looked at
read_connect_request_any_command(input) ==
    IF Len(input) < 4 THEN ReadFailed("UnexpectedEof", Len(input))
    ELSE LET rest == Drop(input, 4) IN
         CASE input[4] = 1 ->
                IF Len(rest) < 4 THEN ReadFailed("UnexpectedEof", Len(input))
                ELSE read_port(AddressIp(IpV4(Take(rest, 4))), Drop(rest, 4), 8)
           [] input[4] = 3 ->
                IF Len(rest) < 1 \/ Len(rest) < 1 + rest[1]
                THEN ReadFailed("UnexpectedEof", Len(input))
                ELSE LET name == SubSeq(rest, 2, 1 + rest[1]) IN
                     IF ~IsUtf8(name)
                     THEN ReadFailed("Socksv5, invalid domain name", 5 + rest[1])
                     ELSE read_port(AddressDomain(name), Drop(rest, 1 + rest[1]),
                                    5 + rest[1])
           [] input[4] = 4 ->
                IF Len(rest) < 16 THEN ReadFailed("UnexpectedEof", Len(input))
                ELSE read_port(AddressIp(IpV6(Take(rest, 16))), Drop(rest, 16), 20)
           [] OTHER -> ReadFailed("Socksv5, unknown adress type", 4)

\* client.rs 134-167: the server-role decoder of a CONNECT request read off
\* the bytes `input` of the client
read_connect_request(input) ==
    IF Len(input) < 4 THEN ReadFailed("UnexpectedEof", Len(input))
    ELSE IF <<input[1], input[2]>> # <<5, 1>>
    THEN ReadFailed("Socksv5, CONNECT is required", 4)
    ELSE LET rest == Drop(input, 4) IN
         CASE input[4] = 1 ->
                IF Len(rest) < 4 THEN ReadFailed("UnexpectedEof", Len(input))
                ELSE read_port(AddressIp(IpV4(Take(rest, 4))), Drop(rest, 4), 8)
           [] input[4] = 3 ->
                IF Len(rest) < 1 \/ Len(rest) < 1 + rest[1]
                THEN ReadFailed("UnexpectedEof", Len(input))
                ELSE LET name == SubSeq(rest, 2, 1 + rest[1]) IN
                     IF ~IsUtf8(name)
                     THEN ReadFailed("Socksv5, invalid domain name", 5 + rest[1])
                     ELSE read_port(AddressDomain(name), Drop(rest, 1 + rest[1]),
                                    5 + rest[1])
           [] input[4] = 4 ->
                IF Len(rest) < 16 THEN ReadFailed("UnexpectedEof", Len(input))
                ELSE read_port(AddressIp(IpV6(Take(rest, 16))), Drop(rest, 16), 20)
           [] OTHER -> ReadFailed("Socksv5, unknown adress type", 4)

\* client.rs 123-132: version and method list
read_method_selection(input) ==
    IF Len(input) < 1 THEN ReadFailed("UnexpectedEof", 0)
    ELSE IF input[1] # 5
    THEN ReadFailed("Neither a NATed or SOCKSv5 connection", 1)
    ELSE IF Len(input) < 2 \/ Len(input) < 2 + input[2]
    THEN ReadFailed("UnexpectedEof", Len(input))
    ELSE IF \A i \in 3..(2 + input[2]) : input[i] # 0
    THEN ReadFailed("Socksv5, Only no auth supported", 2 + input[2])
    ELSE [ret |-> "Ok", err |-> "", dest |-> <<>>, used |-> 2 + input[2]]

(* sample data *)

V4Samples ==
    {<<93, 184, 216, 34>>, <<10, 0, 0, 1>>, <<1, 2, 3, 4>>, <<3, 1, 1, 1>>,
     <<4, 3, 2, 1>>}
V6Mapped(o) == <<0, 0, 0, 0, 0, 0, 0, 0, 0, 0, 255, 255>> \o o
V6Samples ==
    {<<32, 1, 13, 184, 0, 0, 0, 0, 0, 0, 0, 0, 0, 0, 0, 1>>,
     V6Mapped(<<10, 0, 0, 1>>)}
TestLocal == <<116, 101, 115, 116, 46, 108, 111, 99, 97, 108>>
ExampleCom == <<101, 120, 97, 109, 112, 108, 101, 46, 99, 111, 109>>
\* names a Box<str> can hold, up to 255 bytes
DomainSamples ==
    {<<>>, <<97>>, TestLocal, ExampleCom, <<195, 169>>, [i \in 1..255 |-> 97]}
\* byte strings that are no UTF-8
BadNameSamples == {<<255, 97>>, <<97, 195>>}
PortSamples == {80, 443, 8080, 65535}

DestinationSamples ==
    {Destination(h, p) :
        h \in {AddressIp(IpV4(o)) : o \in V4Samples}
              \cup {AddressIp(IpV6(o)) : o \in V6Samples}
              \cup {AddressDomain(n) : n \in DomainSamples},
        p \in PortSamples}

(* the round trip of the codec *)

CodecIdle ==
    /\ kpc = "off"
    /\ kdest = <<>>
    /\ wire = <<>>
    /\ decoded = <<>>

CodecInit ==
    /\ kpc = "start"
    /\ kdest \in {<<d>> : d \in DestinationSamples}
    /\ wire = <<>>
    /\ decoded = <<>>

Encode ==
    /\ kpc = "start"
    /\ wire' = build_request(kdest[1])
    /\ kpc' = "encoded"
    /\ UNCHANGED <<kdest, decoded, notCodec>>

Decode ==
    /\ kpc = "encoded"
    /\ decoded' = <<read_connect_request(wire)>>
    /\ kpc' = "decoded"
    /\ UNCHANGED <<kdest, wire, notCodec>>

CodecNext == Encode \/ Decode

-----------------------------------------------------------------------------
(* Client::from_socket (client.rs 103-178) *)

\* a plausible slip: addresses are compared as they are
normalize_socket_addr_unmapped(socket) == socket

\* client.rs normalize_socket_addr
normalize_socket_addr(socket) ==
    IF socket.ip.v = 4
    THEN SocketAddr(IpV6(V6Mapped(socket.ip.octets)), socket.port)
    ELSE socket

\* client.rs 107-110: get_original_address_v4, or else _v6, or else local_addr.
\* e.orig4 and e.orig6 are what the two lookups answer: <<>> is Err.
original_dest(e) ==
    IF e.orig4 # <<>> THEN e.orig4[1]
    ELSE IF e.orig6 # <<>> THEN e.orig6[1]
    ELSE e.local

\* client.rs 113-114
is_nated(e) ==
    normalize_socket_addr(original_dest(e)) # normalize_socket_addr(e.local)

Rd(bytes) == [op |-> "read", bytes |-> bytes]
Wr(bytes) == [op |-> "write", bytes |-> bytes]

\* Client::from_socket on a socket with lookups e whose client sends `input`
\* and then closes: the result, the I/O on the socket in order, the bytes used
from_socket(e, input) ==
    IF is_nated(e)
    THEN [ret |-> "Ok", err |-> "",
          dest |-> <<DestinationFromSocketAddr(original_dest(e))>>,
          log |-> <<>>, used |-> 0]
    ELSE LET g == read_method_selection(input) IN
         IF g.ret = "Err"
         THEN [ret |-> "Err", err |-> g.err, dest |-> <<>>,
               log |-> <<Rd(Take(input, g.used))>>, used |-> g.used]
         ELSE LET r == read_connect_request(Drop(input, g.used))
                  head == <<Rd(Take(input, g.used)), Wr(MethodSelected),
                            Rd(SubSeq(input, g.used + 1, g.used + r.used))>>
              IN IF r.ret = "Err"
                 THEN [ret |-> "Err", err |-> r.err, dest |-> <<>>,
                       log |-> head, used |-> g.used + r.used]
                 ELSE [ret |-> "Ok", err |-> "", dest |-> r.dest,
                       log |-> Append(head, Wr(SuccessFrame)),
                       used |-> g.used + r.used]

(* Client::retrieve_dest (client.rs 184-212) *)

\* BytesMut::with_capacity(2048)
PeekBufSize == 2048

\* the lengths a partial read of the peek is tried with
MaxPartialPeek == 1

\* what timeout(wait, left.read(&mut buf)) can answer when the client has
\* `input` still to deliver: the deadline passes, the read fails, or it
\* returns bytes (none when the client has closed)
PeekOutcomes(input) ==
    {[kind |-> "Elapsed", bytes |-> <<>>], [kind |-> "Err", bytes |-> <<>>]}
    \cup {[kind |-> "Ok", bytes |-> Take(input, n)] :
             n \in {Min(Len(input), PeekBufSize)}
                   \cup {k \in 1..MaxPartialPeek : k <= Len(input)}}

\* Client::retrieve_dest
retrieve_dest(self, io) ==
    IF io.kind = "Elapsed"
    THEN [ret |-> "Err", err |-> "TimedOut", client |-> <<>>]
    ELSE [ret |-> "Ok", err |-> "",
          client |-> <<[dest |-> self.dest, pending_data |-> <<>>]>>]

(* socks5::handshake (socks5.rs 16-70) *)

\* a plausible slip: the reply to the CONNECT request is read but not checked
do_handshake_unchecked_reply(dest, data, reply) ==
    IF Len(reply) < 2
    THEN [ret |-> "Err", err |-> "UnexpectedEof",
          log |-> <<Wr(MethodOffer), Rd(reply)>>]
    ELSE IF Take(reply, 2) # <<5, 0>>
    THEN [ret |-> "Err", err |-> "",
          log |-> <<Wr(MethodOffer), Rd(Take(reply, 2))>>]
    ELSE LET head == <<Wr(MethodOffer), Rd(Take(reply, 2)),
                       Wr(build_request(dest))>>
             rest == Drop(reply, 2)
         IN IF Len(rest) < 10
            THEN [ret |-> "Err", err |-> "UnexpectedEof",
                  log |-> Append(head, Rd(rest))]
            ELSE [ret |-> "Ok", err |-> "",
                  log |-> Append(head, Rd(Take(rest, 10)))
                          \o (IF data # <<>> THEN <<Wr(data[1])>> ELSE <<>>)]

\* do_handshake towards an upstream that answers with the bytes `reply`
do_handshake(dest, data, reply) ==
    IF Len(reply) < 2
    THEN [ret |-> "Err", err |-> "UnexpectedEof",
          log |-> <<Wr(MethodOffer), Rd(reply)>>]
    ELSE IF Take(reply, 2) # <<5, 0>>
    THEN [ret |-> "Err", err |-> "",
          log |-> <<Wr(MethodOffer), Rd(Take(reply, 2))>>]
    ELSE LET head == <<Wr(MethodOffer), Rd(Take(reply, 2)),
                       Wr(build_request(dest))>>
             rest == Drop(reply, 2)
         IN IF Len(rest) < 10
            THEN [ret |-> "Err", err |-> "UnexpectedEof",
                  log |-> Append(head, Rd(rest))]
            ELSE IF Take(rest, 2) # <<5, 0>>
            THEN [ret |-> "Err", err |-> "unexpected reply from server",
                  log |-> Append(head, Rd(Take(rest, 10)))]
            ELSE [ret |-> "Ok", err |-> "",
                  log |-> Append(head, Rd(Take(rest, 10)))
                          \o (IF data # <<>> THEN <<Wr(data[1])>> ELSE <<>>)]

\* Client::connect_remote_server: connect to the configured upstream proxy,
\* then the handshake with the Client's destination and pending data
connect_remote_server(self, connected, reply) ==
    IF ~connected
    THEN [ret |-> "Err", err |-> "ConnectionRefused", log |-> <<>>]
    ELSE do_handshake(self.dest, self.pending_data, reply)

(* what clients and the upstream send *)

U16(n) == <<n \div 256, n % 256>>
U24(n) == <<n \div 65536, (n \div 256) % 256, n % 256>>

\* a server-name extension: type 0, length, list length, name type 0, name
SniExtension(name) ==
    <<0, 0>> \o U16(Len(name) + 5) \o U16(Len(name) + 3) \o <<0>>
    \o U16(Len(name)) \o name

\* a single-record ClientHello: version, random, empty session id, one cipher
\* suite, one compression method, the extensions
ClientHelloRecord(exts) ==
    LET body == <<3, 3>> \o [i \in 1..32 |-> 7] \o <<0>> \o <<0, 2, 19, 1>>
                \o <<1, 0>> \o U16(Len(exts)) \o exts
        fragment == <<1>> \o U24(Len(body)) \o body
    IN <<22, 3, 1>> \o U16(Len(fragment)) \o fragment

ClientHelloWithSni(name) == ClientHelloRecord(SniExtension(name))

HttpGet == <<71, 69, 84, 32, 47>>

\* what a client of the SOCKS5 server role asks for
TargetSamples ==
    {[atyp |-> 1, addr |-> o] : o \in {<<93, 184, 216, 34>>, <<1, 2, 3, 4>>}}
    \cup {[atyp |-> 3, addr |-> n] :
             n \in {<<>>, TestLocal, <<195, 169>>, [i \in 1..255 |-> 97]}
                   \cup BadNameSamples}
    \cup {[atyp |-> 4, addr |-> o] : o \in V6Samples}
    \cup {[atyp |-> 2, addr |-> <<>>]}

SocksScripts ==
    [kind : {"socks"}, ver : {5, 4}, methods : {<<>>, <<0>>, <<2>>, <<1, 0>>},
     req : {<<5, 1>>, <<5, 2>>, <<4, 1>>}, rsv : {0, 9},
     target : TargetSamples, port : {443, 8080},
     tail : {<<>>, ClientHelloWithSni(ExampleCom)}]

\* the bytes of a SOCKS5 client: greeting, request, then what follows
SocksBytes(sc) ==
    <<sc.ver, Len(sc.methods)>> \o sc.methods
    \o sc.req \o <<sc.rsv, sc.target.atyp>>
    \o (IF sc.target.atyp = 3 THEN <<Len(sc.target.addr)>> ELSE <<>>)
    \o sc.target.addr \o U16(sc.port) \o sc.tail

CanonicalSocks ==
    [kind |-> "socks", ver |-> 5, methods |-> <<0>>, req |-> <<5, 1>>,
     rsv |-> 0, target |-> [atyp |-> 3, addr |-> TestLocal], port |-> 8080,
     tail |-> <<>>]

\* clients that send their bytes as they are: a first flight of a redirected
\* connection, or a SOCKS5 exchange cut short
RawScripts ==
    {[kind |-> "raw", bytes |-> b] :
        b \in {<<>>, ClientHelloWithSni(ExampleCom), ClientHelloWithSni(<<97>>),
               Take(ClientHelloWithSni(ExampleCom), 20), HttpGet}
              \cup {Take(SocksBytes(CanonicalSocks), k) :
                       k \in 0..(Len(SocksBytes(CanonicalSocks)) - 1)}}

ClientBytes(sc) == IF sc.kind = "socks" THEN SocksBytes(sc) ELSE sc.bytes

Local4 == SocketAddr(IpV4(<<10, 0, 0, 1>>), 1080)
Local6 == SocketAddr(IpV6(V6Mapped(<<10, 0, 0, 1>>)), 1080)

\* accepted sockets: the answers of the two lookups and the local address
EnvSamples ==
    {[orig4 |-> <<>>, orig6 |-> <<>>, local |-> Local4],
     [orig4 |-> <<Local4>>, orig6 |-> <<>>, local |-> Local4],
     [orig4 |-> <<Local4>>, orig6 |-> <<>>, local |-> Local6],
     [orig4 |-> <<SocketAddr(IpV4(<<93, 184, 216, 34>>), 443)>>, orig6 |-> <<>>,
      local |-> Local4],
     [orig4 |-> <<SocketAddr(IpV4(<<93, 184, 216, 34>>), 80)>>, orig6 |-> <<>>,
      local |-> Local6],
     [orig4 |-> <<>>,
      orig6 |-> <<SocketAddr(IpV6(<<32, 1, 13, 184, 0, 0, 0, 0,
                                    0, 0, 0, 0, 0, 0, 0, 1>>), 443)>>,
      local |-> Local6]}

\* what the upstream proxy answers
UpstreamReplies ==
    {<<>>, <<5, 0>>, <<5, 255>> \o SuccessFrame, <<4, 0>> \o SuccessFrame,
     <<5, 0>> \o SuccessFrame, <<5, 0, 5, 1, 0, 1, 0, 0, 0, 0, 0, 0>>,
     <<5, 0, 4, 0, 0, 1, 0, 0, 0, 0, 0, 0>>}

(* handle_client (main.rs 71-81) *)

ConnIdle ==
    /\ hpc = "off"
    /\ env = <<>>
    /\ script = <<>>
    /\ cin = <<>>
    /\ cio = <<>>
    /\ client = <<>>
    /\ peek = <<>>
    /\ uio = <<>>
    /\ resolved = <<>>
    /\ herr = <<>>

\* listener.accept() has returned a socket
ConnInit ==
    /\ hpc = "accepted"
    /\ env \in EnvSamples
    /\ script \in SocksScripts \cup RawScripts
    /\ cin = ClientBytes(script)
    /\ cio = <<>>
    /\ client = <<>>
    /\ peek = <<>>
    /\ uio = <<>>
    /\ resolved = <<>>
    /\ herr = <<>>

Failed(at, err) == <<[at |-> at, err |-> err]>>

\* main.rs 72
FromSocket ==
    /\ hpc = "accepted"
    /\ LET r == from_socket(env, cin) IN
       /\ cio' = r.log
       /\ cin' = Drop(cin, r.used)
       /\ resolved' = r.dest
       /\ IF r.ret = "Ok"
          THEN /\ client' = <<[dest |-> r.dest[1], pending_data |-> <<>>]>>
               /\ hpc' = "resolved"
               /\ herr' = herr
          ELSE /\ client' = <<>>
               /\ hpc' = "failed"
               /\ herr' = Failed("from_socket", r.err)
    /\ UNCHANGED <<env, script, peek, uio, notConn>>

\* main.rs 73-74
RetrieveDest ==
    /\ hpc = "resolved"
    /\ client[1].dest.port = 443
    /\ \E io \in PeekOutcomes(cin) :
         LET r == retrieve_dest(client[1], io) IN
         /\ peek' = <<io>>
         /\ cin' = Drop(cin, Len(io.bytes))
         /\ client' = r.client
         /\ IF r.ret = "Ok"
            THEN hpc' = "retrieved" /\ herr' = herr
            ELSE hpc' = "failed" /\ herr' = Failed("retrieve_dest", r.err)
    /\ UNCHANGED <<env, script, cio, uio, resolved, notConn>>

\* main.rs 75 and 77
ConnectRemoteServer ==
    /\ \/ hpc = "retrieved"
       \/ hpc = "resolved" /\ client[1].dest.port # 443
    /\ \E connected \in BOOLEAN, reply \in UpstreamReplies :
         LET r == connect_remote_server(client[1], connected, reply) IN
         /\ uio' = r.log
         /\ IF r.ret = "Ok"
            THEN hpc' = "connected" /\ herr' = herr
            ELSE hpc' = "failed" /\ herr' = Failed("connect_remote_server", r.err)
    /\ UNCHANGED <<env, script, cin, cio, client, peek, resolved,
                   notConn>>

\* main.rs 79: the relay between the client and the upstream starts
DoPipe ==
    /\ hpc = "connected"
    /\ hpc' = "piping"
    /\ UNCHANGED <<env, script, cin, cio, client, peek, uio, resolved, herr,
                   notConn>>

ConnNext ==
    \/ FromSocket
    \/ RetrieveDest
    \/ ConnectRemoteServer
    \/ DoPipe

-----------------------------------------------------------------------------
(* TLS ClientHello parser (tls/mod.rs) *)

EXT_SERVER_NAME == <<0, 0>>

\* what the parser's functions return; Panic is an index out of range
TlsOk(v) == [ret |-> "Ok", val |-> v, err |-> ""]
TlsErr(e) == [ret |-> "Err", val |-> <<>>, err |-> e]
TlsPanic == [ret |-> "Panic", val |-> <<>>, err |-> "index out of range"]

\* tls/mod.rs 12-15: actual_len = actual_len << 8 | bit, over the length bytes
RECURSIVE actual_len(_)
actual_len(bits) ==
    IF bits = <<>> THEN 0
    ELSE actual_len(SubSeq(bits, 1, Len(bits) - 1)) * 256 + bits[Len(bits)]

\* a plausible slip: the data is indexed, not fetched with get
slice_by_at_range_indexing(data, lo, hi) ==
    IF hi > Len(data) THEN TlsErr("no enough data length to decode")
    ELSE LET n == actual_len(SubSeq(data, lo + 1, hi)) IN
         IF hi + n > Len(data) THEN TlsPanic
         ELSE TlsOk(SubSeq(data, hi + 1, hi + n))

\* slice_by_at_range(data, lo..hi)
slice_by_at_range(data, lo, hi) ==
    IF hi > Len(data) THEN TlsErr("no enough data length to decode")
    ELSE LET n == actual_len(SubSeq(data, lo + 1, hi)) IN
         IF hi + n > Len(data) THEN TlsErr("error when get index")
         ELSE TlsOk(SubSeq(data, hi + 1, hi + n))

\* truncate_before(data, lo..hi)
truncate_before(data, lo, hi) ==
    LET r == slice_by_at_range(data, lo, hi) IN
    IF r.ret # "Ok" THEN r
    ELSE IF hi + Len(r.val) > Len(data) THEN TlsPanic
    ELSE TlsOk(Drop(data, hi + Len(r.val)))

\* parse_tls_record
parse_tls_record(data) ==
    LET r == slice_by_at_range(data, 3, 5) IN
    IF r.ret # "Ok" THEN r
    ELSE IF Len(data) < 3 THEN TlsPanic
    ELSE TlsOk([content_type |-> data[1], major_version |-> data[2],
                minor_version |-> data[3], fragment |-> r.val])

\* parse_client_hello, lines 86-102: the loop over the extensions
RECURSIVE while_exts(_, _)
while_exts(exts, server_name) ==
    IF ~(Len(exts) > 4) THEN TlsOk([server_name |-> server_name])
    ELSE LET ext_type == SubSeq(exts, 1, 2)
             d == slice_by_at_range(exts, 2, 4)
             ext_data == d.val
             t == truncate_before(ext_data, 2, 4)
         IN IF d.ret # "Ok" THEN d
            ELSE IF t.ret # "Ok" THEN t
            ELSE IF ext_type # EXT_SERVER_NAME THEN while_exts(t.val, server_name)
            ELSE IF Len(ext_data) < 4 THEN TlsPanic
            ELSE IF ext_data[4] # 0 THEN while_exts(t.val, server_name)
            ELSE LET raw_name == slice_by_at_range(ext_data, 3, 5) IN
                 IF raw_name.ret # "Ok" THEN raw_name
                 ELSE IF ~IsUtf8(raw_name.val)
                 THEN TlsErr("error when parse from raw data")
                 ELSE while_exts(t.val, <<raw_name.val>>)

\* parse_client_hello
parse_client_hello(data) ==
    LET rec == parse_tls_record(data) IN
    IF rec.ret # "Ok" THEN rec
    ELSE IF rec.val.major_version # 3 THEN TlsErr("unknown tls version")
    ELSE IF rec.val.content_type # 22 THEN TlsErr("not a handshake")
    ELSE IF Take(rec.val.fragment, 1) # <<1>>
    THEN TlsErr("handshake type isn't a client hello")
    ELSE LET client_hello_body == slice_by_at_range(rec.val.fragment, 1, 4) IN
         IF client_hello_body.ret # "Ok" THEN client_hello_body
         ELSE IF Take(client_hello_body.val, 1) # <<3>>
         THEN TlsErr("unsupported TLS version")
         ELSE LET r1 == truncate_before(client_hello_body.val, 34, 35)
                  r2 == truncate_before(r1.val, 0, 2)
                  r3 == truncate_before(r2.val, 0, 1)
                  exts == slice_by_at_range(r3.val, 0, 2)
              IN IF r1.ret # "Ok" THEN r1
                 ELSE IF r2.ret # "Ok" THEN r2
                 ELSE IF r3.ret # "Ok" THEN r3
                 ELSE IF exts.ret # "Ok" THEN exts
                 ELSE while_exts(exts.val, <<>>)

(* the inputs of the parser *)

\* extensions in a sampled extension list, at most
MaxExts == 3
\* length of the sampled arbitrary byte strings, at most
MaxRawLen == 4

SniExt(name) == [sni |-> TRUE, name |-> name, body |-> <<>>]
OtherExt(body) == [sni |-> FALSE, name |-> <<>>, body |-> body]

\* the bytes of one extension: type, length, body (type 10 for the others)
ExtBytes(e) ==
    IF e.sni THEN SniExtension(e.name)
    ELSE <<0, 10>> \o U16(Len(e.body)) \o e.body

RECURSIVE ExtListBytes(_)
ExtListBytes(l) ==
    IF l = <<>> THEN <<>> ELSE ExtBytes(Head(l)) \o ExtListBytes(Tail(l))

ExtSamples ==
    {SniExt(ExampleCom), SniExt(<<97>>), OtherExt(<<>>),
     OtherExt(<<0, 0, 0, 1, 9>>), OtherExt(<<0, 2, 0, 29>>)}

ExtListSamples == UNION {[1..n -> ExtSamples] : n \in 0..MaxExts}

\* a ClientHello record for an extension list, cut to its first cut[1] bytes
\* if cut is not <<>>, one byte replaced if patch is not <<>>
HelloCase(l, cut, patch) ==
    [kind |-> "hello", exts |-> l, cut |-> cut, patch |-> patch, bytes |-> <<>>]

RawCase(b) ==
    [kind |-> "raw", exts |-> <<>>, cut |-> <<>>, patch |-> <<>>, bytes |-> b]

HelloBytes(l) == ClientHelloRecord(ExtListBytes(l))

CaseBytes(c) ==
    IF c.kind = "raw" THEN c.bytes
    ELSE LET whole == HelloBytes(c.exts)
             patched == IF c.patch = <<>> THEN whole
                        ELSE [whole EXCEPT ![c.patch[1].at] = c.patch[1].byte]
         IN IF c.cut = <<>> THEN patched ELSE Take(patched, c.cut[1])

\* the extension lists whose records are cut and patched
BaseLists ==
    {<<SniExt(ExampleCom)>>, <<SniExt(<<97>>)>>,
     <<OtherExt(<<0, 2, 0, 29>>), SniExt(<<97>>)>>}

TlsCases ==
    {HelloCase(l, <<>>, <<>>) : l \in ExtListSamples}
    \cup UNION {{HelloCase(l, <<n>>, <<>>) : n \in 0..(Len(HelloBytes(l)) - 1)} :
                  l \in BaseLists}
    \cup UNION {{HelloCase(l, <<>>, <<[at |-> i, byte |-> b]>>) :
                    i \in 1..Len(HelloBytes(l)), b \in {0, 1, 4, 255}} :
                  l \in BaseLists}
    \cup {RawCase(b) :
             b \in UNION {[1..n -> {0, 1, 3, 22}] : n \in 0..MaxRawLen}}

TlsIdle ==
    /\ tpc = "off"
    /\ tcase = <<>>
    /\ tdata = <<>>
    /\ tresult = <<>>

TlsInit ==
    /\ tpc = "input"
    /\ tcase \in TlsCases
    /\ tdata = CaseBytes(tcase)
    /\ tresult = <<>>

ParseClientHello ==
    /\ tpc = "input"
    /\ tresult' = <<parse_client_hello(tdata)>>
    /\ tpc' = "parsed"
    /\ UNCHANGED <<tcase, tdata, notTls>>

TlsNext == ParseClientHello

-----------------------------------------------------------------------------
(* the accept loop (main.rs 63-68) *)

\* connections that arrive at the listener
MaxConns == 3

Conns == 1..MaxConns

\* the awaits of handle_client, in order (main.rs 72, 74, 75/77, 79)
Stages == <<"from_socket", "retrieve_dest", "connect_remote_server", "do_pipe">>

\* the main task awaits listener.accept()
AtAccept == [at |-> "accept", conn |-> 0, stage |-> 0, suspended |-> FALSE]
\* the main task is inside handle_client(c).await, at the await Stages[k]
Handling(c, k) == [at |-> "handle", conn |-> c, stage |-> k, suspended |-> FALSE]
\* the loop has ended and main returns
Ended == [at |-> "ended", conn |-> 0, stage |-> 0, suspended |-> FALSE]

\* main.rs 73-78: the await that follows Stages[k]; 0 after do_pipe
next_stage(k, port443) ==
    CASE k = 1 -> IF port443 THEN 2 ELSE 3
      [] k = 2 -> 3
      [] k = 3 -> 4
      [] OTHER -> 0

\* a plausible slip: the result of handle_client is propagated out of the loop
loop_after_propagating(result) == IF result = "Err" THEN Ended ELSE AtAccept

\* main.rs 65-68: where the main task goes with the result of handle_client
loop_after(result) == AtAccept

\* a client connects to the listening port
ClientConnects(c) ==
    /\ hstage[c] = "none"
    /\ hstage' = [hstage EXCEPT ![c] = "queued"]
    /\ backlog' = Append(backlog, c)
    /\ UNCHANGED <<lpc, logged, notServer>>

\* main.rs 63-64: accept() returns Ok and handle_client is called and awaited
Accept ==
    /\ lpc.at = "accept"
    /\ backlog # <<>>
    /\ lpc' = Handling(Head(backlog), 1)
    /\ hstage' = [hstage EXCEPT ![Head(backlog)] = Stages[1]]
    /\ backlog' = Tail(backlog)
    /\ UNCHANGED <<logged, notServer>>

\* main.rs 63: accept() returns Err and the while let loop ends
AcceptFails ==
    /\ lpc.at = "accept"
    /\ lpc' = Ended
    /\ UNCHANGED <<backlog, hstage, logged, notServer>>

\* main.rs 64-67 with 71-81: the await the main task is at answers Pending
\* (the task is suspended), Ok or Err
HandleStep ==
    /\ lpc.at = "handle"
    /\ \E out \in {"Pending", "Ok", "Err"}, port443 \in BOOLEAN :
         LET c == lpc.conn
             k == next_stage(lpc.stage, port443)
         IN CASE out = "Pending" ->
                   /\ lpc' = [lpc EXCEPT !.suspended = TRUE]
                   /\ UNCHANGED <<hstage, logged>>
              [] out = "Ok" /\ k # 0 ->
                   /\ lpc' = Handling(c, k)
                   /\ hstage' = [hstage EXCEPT ![c] = Stages[k]]
                   /\ UNCHANGED logged
              [] out = "Ok" /\ k = 0 ->
                   /\ lpc' = loop_after("Ok")
                   /\ hstage' = [hstage EXCEPT ![c] = "ok"]
                   /\ UNCHANGED logged
              [] OTHER ->
                   /\ lpc' = loop_after("Err")
                   /\ hstage' = [hstage EXCEPT ![c] = "err"]
                   /\ logged' = Append(logged, c)
    /\ UNCHANGED <<backlog, notServer>>

ServerIdle ==
    /\ lpc = [at |-> "off", conn |-> 0, stage |-> 0, suspended |-> FALSE]
    /\ backlog = <<>>
    /\ hstage = [c \in Conns |-> "none"]
    /\ logged = <<>>

\* the listener is bound and the loop is entered
ServerInit ==
    /\ lpc = AtAccept
    /\ backlog = <<>>
    /\ hstage = [c \in Conns |-> "none"]
    /\ logged = <<>>

ServerNext ==
    \/ \E c \in Conns : ClientConnects(c)
    \/ Accept
    \/ AcceptFails
    \/ HandleStep

-----------------------------------------------------------------------------
(* socks5::handshake called on its own (socks5.rs 16-70) *)

\* what the upstream answers, cut short and with bytes to spare as well
ShakeReplies ==
    UpstreamReplies
    \cup {<<5>>, <<5, 0, 5, 0, 0, 1>>, <<5, 0, 5>>, <<0, 5>> \o SuccessFrame,
          <<5, 0>> \o SuccessFrame \o <<72, 84>>,
          <<5, 0, 5, 0, 0, 3, 1, 97, 0, 80, 9, 9>>}

\* data: Option<T>, None or the bytes to flush after the handshake
ShakeData == {<<>>, <<HttpGet>>, <<(<<>>)>>, <<ClientHelloWithSni(<<97>>)>>}

ShakeIdle ==
    /\ hspc = "off"
    /\ hsarg = <<>>
    /\ hsret = <<>>

ShakeInit ==
    /\ hspc = "call"
    /\ hsarg \in [dest : DestinationSamples, data : ShakeData,
                  reply : ShakeReplies]
    /\ hsret = <<>>

\* socks5.rs 26
DoHandshake ==
    /\ hspc = "call"
    /\ hsret' = <<do_handshake(hsarg.dest, hsarg.data, hsarg.reply)>>
    /\ hspc' = "returned"
    /\ UNCHANGED <<hsarg, notShake>>

ShakeNext == DoHandshake

-----------------------------------------------------------------------------
(* Specifications *)

RelayIdle ==
    /\ bipipe = pipe
    /\ shared = ZeroWindow
    /\ sock = [s \in Sides |-> NewSocket(s)]
    /\ readLog = [s \in Sides |-> <<>>]
    /\ wrote = [s \in Sides |-> <<>>]
    /\ rpc = [at |-> "off", side |-> "left", stage |-> "top"]
    /\ lastPoll = [result |-> "None", at |-> 0, elapsed |-> FALSE,
                   firstAsym |-> <<>>, err |-> "None", failed |-> <<>>]
    /\ now = 0

\* the relay between two connected sockets
Init == RelayInit /\ ConnIdle /\ CodecIdle /\ TlsIdle /\ ServerIdle /\ ShakeIdle

Next == RelayNext

Spec == Init /\ [][Next]_vars

\* the relay from a direction with unwritten bytes in the shared buffer
InitHandOff ==
    HandOffInit /\ ConnIdle /\ CodecIdle /\ TlsIdle /\ ServerIdle /\ ShakeIdle

SpecHandOff == InitHandOff /\ [][RelayNext]_vars

\* one accepted connection, from accept to the start of its relay
InitConn == RelayIdle /\ ConnInit /\ CodecIdle /\ TlsIdle /\ ServerIdle /\ ShakeIdle

SpecConn == InitConn /\ [][ConnNext]_vars

\* the codec round trip
InitCodec == RelayIdle /\ ConnIdle /\ CodecInit /\ TlsIdle /\ ServerIdle /\ ShakeIdle

SpecCodec == InitCodec /\ [][CodecNext]_vars

\* parse_client_hello applied to one input
InitTls == RelayIdle /\ ConnIdle /\ CodecIdle /\ TlsInit /\ ServerIdle /\ ShakeIdle

SpecTls == InitTls /\ [][TlsNext]_vars

\* the accept loop and the connections it handles
InitServer ==
    RelayIdle /\ ConnIdle /\ CodecIdle /\ TlsIdle /\ ServerInit /\ ShakeIdle

SpecServer == InitServer /\ [][ServerNext]_vars

\* do_handshake called once
InitShake ==
    RelayIdle /\ ConnIdle /\ CodecIdle /\ TlsIdle /\ ServerIdle /\ ShakeInit

SpecShake == InitShake /\ [][ShakeNext]_vars

-----------------------------------------------------------------------------
(* The relay: claims *)

IsPrefix(a, b) == Len(a) <= Len(b) /\ SubSeq(b, 1, Len(a)) = a

\* the task is not inside poll_one_side(side): control can pass elsewhere
Outside(side) == ~(rpc.at = "one_side" /\ rpc.side = side)

\* BiPipe::poll is not running: it has returned Pending or Ready
PollReturned == rpc.at \in {"idle", "returned"} /\ lastPoll.result # "None"

\* C1: in each direction the bytes written to the peer are a prefix of the
\* bytes read from the source, and equal to them once the direction is done.
C1_RelayBufferIntegrity ==
    \A s \in Sides :
        /\ IsPrefix(wrote[s], readLog[s])
        /\ (bipipe[s].done => wrote[s] = readLog[s])

\* C2: whenever control is outside poll_one_side of a direction, a direction
\* without a private buffer has pos = cap.
C2_SharedBufferExclusive ==
    \A s \in Sides :
        (Outside(s) /\ bipipe[s].buf = <<>>) => bipipe[s].pos = bipipe[s].cap

\* poll_one_side(left) has read bytes into the shared buffer and returned, and
\* the task is now inside poll_one_side(right)
C2_Witness ==
    /\ rpc.at = "one_side" /\ rpc.side = "right"
    /\ readLog["left"] # <<>>
    /\ bipipe.left.buf = <<>>

\* C3: with exactly one direction finished, a poll made before the half-close
\* timer has elapsed returns Pending; a poll that leaves both directions
\* finished returns Ready(Ok); and Ready(Ok) with one direction finished comes
\* no sooner than HALF_CLOSE_TIMEOUT after the first poll that saw the
\* asymmetric state.
C3_HalfClose ==
    PollReturned =>
        /\ (Asymmetric(bipipe) /\ lastPoll.result # "ReadyErr" /\ ~lastPoll.elapsed)
              => (lastPoll.result = "Pending" /\ rpc.at = "idle")
        /\ (bipipe.left.done /\ bipipe.right.done)
              => (lastPoll.result = "ReadyOk" /\ rpc.at = "returned")
        /\ (Asymmetric(bipipe) /\ lastPoll.result = "ReadyOk")
              => /\ lastPoll.firstAsym # <<>>
                 /\ lastPoll.at >= lastPoll.firstAsym[1] + HALF_CLOSE_TIMEOUT

\* the relay completed on the half-close timer, one direction still open
C3_Witness ==
    /\ rpc.at = "returned"
    /\ lastPoll.result = "ReadyOk"
    /\ Asymmetric(bipipe)

\* C17: once a poll has seen exactly one direction finished, the deadline is
\* HALF_CLOSE_TIMEOUT after that poll and later polls leave it unchanged; a
\* poll made in the asymmetric state at or after that time does not return
\* Pending.
C17_HalfCloseBounded ==
    (lastPoll.firstAsym # <<>> /\ bipipe.half_close_deadline # <<>>) =>
        /\ bipipe.half_close_deadline[1] =
             lastPoll.firstAsym[1] + HALF_CLOSE_TIMEOUT
        /\ (PollReturned /\ Asymmetric(bipipe) /\ lastPoll.result = "Pending")
              => lastPoll.at < lastPoll.firstAsym[1] + HALF_CLOSE_TIMEOUT

C20_DirectionFinish ==
    /\ [](\A s \in Sides :
            /\ bipipe[s].done =>
                 /\ bipipe[s].read_eof
                 /\ bipipe[s].pos = bipipe[s].cap
                 /\ sock[Other(s)].shut \in {"Ok", "Err"}
            /\ sock[Other(s)].shut # "No" => bipipe[s].done)
    /\ [][\A s \in Sides :
            /\ (~bipipe[s].done /\ bipipe'[s].done) =>
                  /\ rpc = [at |-> "one_side", side |-> s, stage |-> "shutdown"]
                  /\ rpc'.at # "returned"
                  /\ lastPoll' = lastPoll
            /\ (rpc = [at |-> "one_side", side |-> s, stage |-> "shutdown"]
                /\ sock'[Other(s)].shut = "No") => ~bipipe'[s].done]_vars

\* the relay completed with Ready(Ok) although a shutdown failed
C20_Witness ==
    /\ rpc.at = "returned"
    /\ lastPoll.result = "ReadyOk"
    /\ bipipe.left.done /\ bipipe.right.done
    /\ sock["right"].shut = "Err"

\* a step of the relay task out of the top of the loop of direction s that
\* is not the step that skips the read: a read was issued on the source of s
ReadIssued(s) ==
    /\ rpc = AtSide(s)
    /\ rpc' # rpc
    /\ ~(/\ rpc' = [rpc EXCEPT !.stage = "write"]
         /\ UNCHANGED <<bipipe, shared, sock, readLog, lastPoll>>)

\* C21: a read is issued on a direction's source only when that direction's
\* buffer is empty (pos = cap) and end-of-input has not been observed on it;
\* a read that returns zero bytes sets read_eof, and read_eof is never cleared,
\* so that no read is issued on the direction afterwards.
C21_ReadGuard ==
    [][\A s \in Sides :
         /\ ReadIssued(s) =>
              /\ bipipe[s].pos = bipipe[s].cap
              /\ ~bipipe[s].read_eof
         /\ (/\ ReadIssued(s)
             /\ rpc' = [rpc EXCEPT !.stage = "write"]
             /\ readLog'[s] = readLog[s]) => bipipe'[s].read_eof
         /\ bipipe[s].read_eof => bipipe'[s].read_eof]_vars

\* a later poll went past the read of a direction that still holds unwritten
\* bytes
C21_Witness ==
    /\ rpc = [at |-> "one_side", side |-> "left", stage |-> "write"]
    /\ bipipe.left.pos < bipipe.left.cap
    /\ lastPoll.result = "Pending"

\* a later poll is at the top of the loop of a direction on which end-of-input
\* has been observed: the read is not issued again
C21_WitnessEof ==
    \E s \in Sides :
       /\ rpc = [at |-> "one_side", side |-> s, stage |-> "shutdown"]
       /\ bipipe[s].read_eof /\ ~bipipe[s].done
       /\ lastPoll.result = "Pending"
       /\ sock[Other(s)].shut = "No"
       /\ readLog[s] = PeerStream(s)

\* C22: a write of a non-empty buffer that the socket answers with zero bytes
\* makes BiPipe::poll complete with a WriteZero error, and a read or a write
\* that the socket answers with an error makes it complete with that error;
\* the completion is in the step of the failed operation, which leaves the
\* cursors and the bytes written as they were, and nothing of the relay is
\* polled after the completion.
C22_WriteZeroFatal ==
    /\ [](lastPoll.failed # <<>> =>
            /\ rpc = Returned
            /\ lastPoll.result = "ReadyErr"
            /\ lastPoll.err = IF lastPoll.failed[1].io = "Ok0"
                              THEN "WriteZero" ELSE "Io")
    /\ [][/\ (lastPoll.failed = <<>> /\ lastPoll'.failed # <<>>) =>
               /\ bipipe' = bipipe
               /\ wrote' = wrote
               /\ lastPoll'.failed[1].op = "write" =>
                    bipipe[lastPoll'.failed[1].side].pos
                       < bipipe[lastPoll'.failed[1].side].cap
          /\ rpc.at = "returned" =>
               UNCHANGED <<bipipe, shared, readLog, wrote, rpc, lastPoll>>]_vars

\* the left direction wrote one of its two bytes, and the next write took
\* none: the relay completed with WriteZero before the right direction was
\* polled
C22_Witness ==
    /\ lastPoll.failed = <<[op |-> "write", side |-> "left", io |-> "Ok0"]>>
    /\ lastPoll.err = "WriteZero"
    /\ rpc = Returned
    /\ bipipe.left.pos = 1 /\ bipipe.left.cap = 2
    /\ wrote.left = <<11>>
    /\ readLog.right = <<>>

\* a read on the right direction failed after the left direction had been
\* polled
C22_WitnessRead ==
    /\ lastPoll.failed = <<[op |-> "read", side |-> "right", io |-> "Err"]>>
    /\ lastPoll.err = "Io"
    /\ lastPoll.result = "ReadyErr"
    /\ rpc = Returned

\* C23: in every reachable state each direction has pos <= cap and cap no
\* larger than the buffer the direction uses (its private buffer if it has
\* one, the shared buffer otherwise), and no write has indexed out of range.
C23_CursorInvariant ==
    /\ \A s \in Sides :
          /\ bipipe[s].pos <= bipipe[s].cap
          /\ bipipe[s].cap <= (IF bipipe[s].buf = <<>> THEN SHARED_BUF_SIZE
                               ELSE bipipe[s].buf[1].len)
    /\ lastPoll.result # "Panic"

\* both directions have read all that their peers sent, and the task stands
\* before the write of one of them
C23_Witness ==
    /\ \A s \in Sides : readLog[s] = PeerStream(s)
    /\ rpc.at = "one_side" /\ rpc.stage = "write"

-----------------------------------------------------------------------------
(* Connection handling: claims *)

\* the lookup succeeded and its result, IPv4 mapped to IPv6-mapped form,
\* differs from the local address in the same form
LookupOk(e) == e.orig4 # <<>> \/ e.orig6 # <<>>
LookupResult(e) == IF e.orig4 # <<>> THEN e.orig4[1] ELSE e.orig6[1]
MappedForm(a) ==
    IF a.ip.v = 4
    THEN [ip |-> <<0, 0, 0, 0, 0, 0, 0, 0, 0, 0, 255, 255>> \o a.ip.octets,
          port |-> a.port]
    ELSE [ip |-> a.ip.octets, port |-> a.port]
Redirected(e) ==
    LookupOk(e) /\ MappedForm(LookupResult(e)) # MappedForm(e.local)

\* retrieve_dest has returned Ok
Retrieved == hpc \in {"retrieved", "connected", "piping"}

\* the bytes written to a socket, in order, from its I/O log
RECURSIVE Written(_)
Written(log) ==
    IF log = <<>> THEN <<>>
    ELSE (IF Head(log).op = "write" THEN Head(log).bytes ELSE <<>>)
         \o Written(Tail(log))

\* C4: the bytes the peek of retrieve_dest read are kept as the client's
\* pending data, and when the upstream handshake has succeeded they have been
\* written to the upstream once, right after the handshake.
C4_PendingDataDelivered ==
    (peek # <<>> /\ peek[1].kind = "Ok" /\ peek[1].bytes # <<>>) =>
        /\ Retrieved => client[1].pending_data = <<peek[1].bytes>>
        /\ hpc \in {"connected", "piping"} =>
              Written(uio) = MethodOffer \o build_request(client[1].dest)
                             \o peek[1].bytes

\* C5: a peek that times out, or that reads bytes that are no TLS handshake
\* record, does not fail the connection, and the destination stays the one
\* the lookup gave.
C5_SniffFallbackNonFatal ==
    (/\ peek # <<>>
     /\ Redirected(env)
     /\ \/ peek[1].kind = "Elapsed"
        \/ peek[1].kind = "Ok" /\ Take(peek[1].bytes, 1) # <<22>>) =>
        /\ ~(herr # <<>> /\ herr[1].at = "retrieve_dest")
        /\ client # <<>>
        /\ client[1].dest = DestinationFromSocketAddr(LookupResult(env))

\* C6: a redirected connection to port 443 whose peek read a ClientHello
\* with server name h goes upstream with destination Domain(h), port 443.
C6_SniReplacesDestination ==
    \A h \in {ExampleCom, <<97>>} :
        (/\ Redirected(env)
         /\ LookupResult(env).port = 443
         /\ Retrieved
         /\ peek[1] = [kind |-> "Ok", bytes |-> ClientHelloWithSni(h)]) =>
            client[1].dest = Destination(AddressDomain(h), 443)

\* a complete SOCKS5 exchange of a client: version 5, "no auth" offered,
\* CONNECT, a known address type
SuccessShaped(sc) ==
    /\ sc.kind = "socks"
    /\ sc.ver = 5
    /\ \E i \in 1..Len(sc.methods) : sc.methods[i] = 0
    /\ sc.req = <<5, 1>>
    /\ sc.target.atyp \in {1, 3, 4}

\* the address a script asks for
RequestedHost(sc) ==
    CASE sc.target.atyp = 1 -> AddressIp(IpV4(sc.target.addr))
      [] sc.target.atyp = 4 -> AddressIp(IpV6(sc.target.addr))
      [] OTHER -> AddressDomain(sc.target.addr)

\* from_socket answered a complete exchange as the protocol says: both replies
\* written once, each after the bytes it answers, and the Destination asked for
AnsweredInFull(sc) ==
    /\ ~(herr # <<>> /\ herr[1].at = "from_socket")
    /\ resolved = <<Destination(RequestedHost(sc), sc.port)>>
    /\ LET g == 2 + Len(sc.methods)
           q == Len(SocksBytes(sc)) - Len(sc.tail)
       IN cio = <<Rd(Take(SocksBytes(sc), g)), Wr(<<5, 0>>),
                  Rd(SubSeq(SocksBytes(sc), g + 1, q)),
                  Wr(<<5, 0, 0, 1, 0, 0, 0, 0, 0, 0>>)>>

\* C7 as stated: every complete exchange of a non-redirected client is
\* answered in full.
C7_Socks5Success_AsStated ==
    (hpc # "accepted" /\ ~Redirected(env) /\ SuccessShaped(script)) =>
        AnsweredInFull(script)

\* C7, amended: every complete exchange of a non-redirected client whose
\* domain name, if it names one, is well-formed UTF-8 is answered in full.
C7_Socks5Success ==
    (/\ hpc # "accepted"
     /\ ~Redirected(env)
     /\ SuccessShaped(script)
     /\ (script.target.atyp = 3 => IsUtf8(script.target.addr))) =>
        AnsweredInFull(script)

\* CONNECT to test.local:8080 has been answered
C7_Witness ==
    /\ hpc = "resolved"
    /\ ~Redirected(env)
    /\ SuccessShaped(script)
    /\ script.target = [atyp |-> 3, addr |-> TestLocal]
    /\ script.port = 8080
    /\ Len(cio) = 4

\* one of the protocol violations of C8
Violation(sc) ==
    /\ sc.kind = "socks"
    /\ \/ sc.ver # 5
       \/ \A i \in 1..Len(sc.methods) : sc.methods[i] # 0
       \/ sc.req # <<5, 1>>
       \/ sc.target.atyp \notin {1, 3, 4}

\* C8: after a protocol violation of a non-redirected client from_socket has
\* returned an error, the success frame was not written, no Destination was
\* resolved, and nothing was sent upstream nor a relay started.
C8_ViolationsFatal ==
    (hpc # "accepted" /\ ~Redirected(env) /\ Violation(script)) =>
        /\ hpc = "failed"
        /\ herr # <<>> /\ herr[1].at = "from_socket"
        /\ \A i \in 1..Len(cio) : cio[i] # Wr(<<5, 0, 0, 1, 0, 0, 0, 0, 0, 0>>)
        /\ resolved = <<>>
        /\ client = <<>>
        /\ uio = <<>>

\* a request that is no CONNECT was refused after the method reply
C8_Witness ==
    /\ hpc = "failed"
    /\ ~Redirected(env)
    /\ script.kind = "socks"
    /\ script.req = <<5, 2>>
    /\ Len(cio) = 3
    /\ cio[2] = Wr(<<5, 0>>)

\* C9: a redirected connection is resolved to the lookup result with no I/O
\* on the client socket; otherwise from_socket starts the SOCKS5 exchange by
\* reading from the client, any error is one of that exchange, and a complete
\* well-formed exchange is resolved.
C9_RedirectPath ==
    hpc # "accepted" =>
        IF Redirected(env)
        THEN /\ resolved = <<DestinationFromSocketAddr(LookupResult(env))>>
             /\ cio = <<>>
             /\ ~(herr # <<>> /\ herr[1].at = "from_socket")
        ELSE /\ cio # <<>> /\ cio[1] = Rd(Take(ClientBytes(script), Len(cio[1].bytes)))
             /\ (resolved = <<>>) = (herr # <<>> /\ herr[1].at = "from_socket")
             /\ (/\ SuccessShaped(script)
                 /\ (script.target.atyp = 3 => IsUtf8(script.target.addr)))
                   => resolved # <<>>

\* a redirected connection was resolved without touching the client socket
C9_Witness ==
    /\ hpc = "resolved"
    /\ Redirected(env)
    /\ ClientBytes(script) # <<>>
    /\ cin = ClientBytes(script)

\* the lookup answered with the local address in another form: not redirected
C9_WitnessSameAddress ==
    /\ hpc = "resolved"
    /\ env.orig4 # <<>>
    /\ env.orig4[1] # env.local
    /\ ~Redirected(env)

\* C18: the peek of retrieve_dest is issued only on a connection whose
\* resolved port is 443 and whose destination came from the redirect lookup:
\* never on a connection resolved through the SOCKS5 exchange, never on
\* another port.
C18_SniffScope ==
    peek # <<>> =>
        /\ resolved # <<>> /\ resolved[1].port = 443
        /\ Redirected(env)
        /\ cio = <<>>

-----------------------------------------------------------------------------
(* The codec: claims *)

\* C10: decoding the bytes build_request produced for a Destination gives
\* that Destination back.
C10_CodecRoundTrip ==
    kpc = "decoded" =>
        /\ decoded[1].ret = "Ok"
        /\ decoded[1].dest = kdest

\* the CONNECT request of RFC 1928 for a Destination: VER CMD RSV ATYP ADDR PORT
ConnectFrame(d) ==
    <<5, 1, 0>>
    \o (CASE d.host.kind = "Ip" /\ d.host.ip.v = 4 -> <<1>> \o d.host.ip.octets
          [] d.host.kind = "Ip" /\ d.host.ip.v = 6 -> <<4>> \o d.host.ip.octets
          [] OTHER -> <<3, Len(d.host.name)>> \o d.host.name)
    \o <<d.port \div 256, d.port % 256>>

\* C11: for every Destination build_request emits VER 5, CMD 1, RSV 0, the
\* ATYP byte of the address variant (1, 3 or 4), the address and the port in
\* big-endian order, and nothing else.
C11_ConnectEncoding ==
    kpc # "start" => wire = ConnectFrame(kdest[1])

-----------------------------------------------------------------------------
(* The TLS parser: claims *)

\* the input is a whole, unaltered ClientHello record
WellFormedHello == tcase.kind = "hello" /\ tcase.cut = <<>> /\ tcase.patch = <<>>

\* the positions of the server-name extensions in an extension list
SniAt(l) == {i \in 1..Len(l) : l[i].sni}

\* C12: for a well-formed single-record ClientHello whose extension list holds
\* one server-name extension with hostname h, at any position and next to
\* extensions of any body length, parse_client_hello returns Ok with
\* server_name = Some(h).
C12_SniExtraction ==
    (tpc = "parsed" /\ WellFormedHello /\ Cardinality(SniAt(tcase.exts)) = 1) =>
        /\ tresult[1].ret = "Ok"
        /\ \A i \in SniAt(tcase.exts) :
              tresult[1].val.server_name = <<tcase.exts[i].name>>

\* C13: parse_client_hello returns Ok or an error and never indexes out of
\* range; a strict prefix of a well-formed ClientHello record, and an input
\* whose content type is not 22, whose major version is not 3 or whose
\* handshake type is not 1, gives an error.
C13_ParserTotal ==
    tpc = "parsed" =>
        /\ tresult[1].ret \in {"Ok", "Err"}
        /\ (tcase.kind = "hello" /\ tcase.cut # <<>> /\ tcase.patch = <<>>)
              => tresult[1].ret = "Err"
        /\ (\/ Len(tdata) >= 1 /\ tdata[1] # 22
            \/ Len(tdata) >= 2 /\ tdata[2] # 3
            \/ Len(tdata) >= 6 /\ tdata[6] # 1) => tresult[1].ret = "Err"

\* a ClientHello cut inside its extension list was refused: the record header
\* was there, the fragment it announces was not
C13_Witness ==
    /\ tpc = "parsed"
    /\ tcase.kind = "hello" /\ tcase.cut # <<>> /\ tcase.cut[1] > 60
    /\ tresult[1] = TlsErr("error when get index")

\* an input that the parser accepts
C13_WitnessOk ==
    /\ tpc = "parsed"
    /\ tresult[1].ret = "Ok"
    /\ tresult[1].val.server_name = <<(<<97>>)>>

-----------------------------------------------------------------------------
(* The accept loop: claims *)

\* C14: while the handling of one connection is pending (its task is
\* suspended in negotiation or relay), a connection that waits at the listener
\* can be accepted.
C14_ConnectionIndependence ==
    \A c \in Conns :
        (hstage[c] = "queued" /\ lpc.at = "handle" /\ lpc.suspended)
            => ENABLED Accept

\* C15: the step in which the handling of a connection ends in an error logs
\* that error and leaves the main task at accept(); every failed connection
\* has been logged.
C15_FailureIsolation ==
    /\ [][\A c \in Conns :
            (hstage[c] # "err" /\ hstage'[c] = "err")
                => (logged' = Append(logged, c) /\ lpc' = AtAccept)]_vars
    /\ [](\A c \in Conns :
            hstage[c] = "err" => \E i \in 1..Len(logged) : logged[i] = c)

\* one connection has failed and a later one is being handled
C15_Witness ==
    /\ lpc.at = "handle"
    /\ logged # <<>>
    /\ hstage[logged[1]] = "err"
    /\ lpc.conn # logged[1]

-----------------------------------------------------------------------------
(* The upstream handshake: claims *)

\* the upstream's answer starts with the method selection [5, 0]
MethodAccepted(reply) == Len(reply) >= 2 /\ SubSeq(reply, 1, 2) = <<5, 0>>

\* and goes on with 10 bytes that start with [5, 0]
ConnectAccepted(reply) ==
    MethodAccepted(reply) /\ Len(reply) >= 12 /\ SubSeq(reply, 3, 4) = <<5, 0>>

\* C19: do_handshake writes the method offer first, the CONNECT request only
\* after it read the 2-byte reply [5, 0], and the caller's data only after it
\* read a 10-byte reply that starts with [5, 0]; after any other reply it
\* returns an error and writes nothing more.
C19_UpstreamHandshakeOrder ==
    hspc = "returned" =>
        LET r == hsret[1]
            log == r.log
            offer == [op |-> "write", bytes |-> <<5, 1, 0>>]
            request == [op |-> "write", bytes |-> build_request(hsarg.dest)]
            flush == IF hsarg.data = <<>> THEN <<>>
                     ELSE <<[op |-> "write", bytes |-> hsarg.data[1]]>>
        IN /\ log # <<>> /\ log[1] = offer
           /\ Len(log) >= 2 /\ log[2].op = "read"
           /\ log[2].bytes = SubSeq(hsarg.reply, 1, Min(2, Len(hsarg.reply)))
           /\ IF ~MethodAccepted(hsarg.reply)
              THEN r.ret = "Err" /\ Len(log) = 2
              ELSE /\ Len(log) >= 4 /\ log[3] = request /\ log[4].op = "read"
                   /\ log[4].bytes =
                        SubSeq(hsarg.reply, 3, Min(12, Len(hsarg.reply)))
                   /\ IF ~ConnectAccepted(hsarg.reply)
                      THEN r.ret = "Err" /\ Len(log) = 4
                      ELSE r.ret = "Ok" /\ SubSeq(log, 5, Len(log)) = flush

\* the handshake succeeded and the caller's bytes were written last
C19_Witness ==
    /\ hspc = "returned"
    /\ hsret[1].ret = "Ok"
    /\ hsarg.data = <<HttpGet>>
    /\ Len(hsret[1].log) = 5
    /\ hsret[1].log[5] = [op |-> "write", bytes |-> HttpGet]

\* a refused CONNECT request: nothing was written after the reply
C19_WitnessRefused ==
    /\ hspc = "returned"
    /\ hsret[1].ret = "Err"
    /\ hsarg.data # <<>>
    /\ Len(hsret[1].log) = 4

====
